---- MODULE Spec2Model ----
(***************************************************************************)
(* Model of src/tda_cover_parameters_tuning.py: the CoverTuning class      *)
(* (create_tda_graph, get_bootstrap_sample, graph_distance_metric,         *)
(* grid_search) and GraphProperties.graph_properties_stats.                *)
(*                                                                         *)
(* Conventions.  Python positions are 0-based, TLA+ sequences 1-based: a   *)
(* Python list l is the sequence whose element l[p] is at p+1.  Dataset    *)
(* rows are identified by their position 0..n-1; the dataset is given by   *)
(* the sequence of its index labels.  sample_ratio is held in tenths       *)
(* (7 is 0.7).  A float score is a reduced fraction <<num, den>>.          *)
(***************************************************************************)
EXTENDS Integers, Sequences, FiniteSets, TLC

VARIABLES
    data_idx,          \* self.data.index.tolist(): the index label of each row
    res_range,         \* self.res_range
    gain_range,        \* self.gain_range
    n_bootstrap,       \* self.n_bootstrap
    seed_value,        \* self.seed_value
    rng,               \* state of the global generator of module random
    netsimile,         \* NetSimile.dist as a table over graph signatures
    sample_ratio,      \* argument of get_bootstrap_sample, in tenths
    idx_bootstrap,     \* the label draws y of the latest get_bootstrap_sample
    bootstrap_samples, \* the list returned by the latest get_bootstrap_sample
    first_idx,         \* the label draws of the first get_bootstrap_sample
    calls,             \* per get_bootstrap_sample call made, the uses before it
    uses,              \* number of other uses of the global generator
    pc,                \* position of the running call
    matrix,            \* grid_search: the result array
    i,                 \* grid_search: resolution loop index
    j,                 \* grid_search: gain loop index
    k,                 \* grid_search: bootstrap loop index
    res_current,       \* grid_search: res_range[i]
    gain_current,      \* grid_search: gain_range[j]
    graph_list,        \* grid_search / graph_distance_metric: the graphs
    dist,              \* value returned by graph_distance_metric
    visited,           \* cells scored so far: <<i, j, len(graph_list)>>
    signature,         \* netrd graph_signature(feature_extraction(graph))
    stats_df           \* value returned by graph_properties_stats

vars == <<data_idx, res_range, gain_range, n_bootstrap, seed_value, rng,
          netsimile, sample_ratio, idx_bootstrap, bootstrap_samples,
          first_idx, calls, uses, pc, matrix, i, j, k, res_current,
          gain_current, graph_list, dist, visited, signature, stats_df>>

----------------------------------------------------------------------------
(* Bounds of the model *)

MaxRows == 3        \* rows of the dataset
MaxBootstrap == 3   \* n_bootstrap
MaxSeed == 1        \* seed_value
MaxRange == 2       \* length of res_range and of gain_range
MaxGraphs == 3      \* length of a graph list handed to graph_distance_metric
MaxDist == 2        \* largest value of NetSimile.dist
MaxCalls == 2       \* calls of get_bootstrap_sample in one run
MaxUses == 2        \* other uses of the global generator in one run
MaxCoef == 6        \* coefficients generating the signature values

----------------------------------------------------------------------------
(* Generic helpers *)

Range(s) == {s[n] : n \in DOMAIN s}

SeqsUpTo(S, n) == UNION {[1..m -> S] : m \in 0..n}

RECURSIVE SumSeq(_)
SumSeq(s) == IF s = <<>> THEN 0 ELSE Head(s) + SumSeq(Tail(s))

RECURSIVE SumOver(_, _)
SumOver(f, keys) ==
    IF keys = {} THEN 0
    ELSE LET key == CHOOSE x \in keys : TRUE
         IN f[key] + SumOver(f, keys \ {key})

RECURSIVE Gcd(_, _)
Gcd(a, b) == IF b = 0 THEN a ELSE Gcd(b, a % b)

\* The float num/den (num >= 0, den > 0) as a reduced fraction.
Fraction(num, den) ==
    LET g == Gcd(num, den) IN <<num \div g, den \div g>>

\* Values that are no float: Python None, numpy nan.  A float is a pair, these
\* are 1-tuples.
None == <<"None">>
NaN == <<"nan">>

IsNumeric(v) == Len(v) = 2

----------------------------------------------------------------------------
(* The global generator of module random and random.sample *)

\* random.seed(a): the state is a function of the seed alone.
RandomSeed(a) == (11 * a + 25) % 64

\* One step of the generator.
RngStep(s) == (13 * s + 7) % 64

\* _randbelow(n) read off the state reached by the step.
Randbelow(s, n) == (s \div 4) % n

\* random.sample(population, k), pool branch: k draws without replacement
\* over the positions of population.
RECURSIVE SampleDraw(_, _, _, _, _)
SampleDraw(s, pool, n, d, result) ==
    IF d = 0 THEN [result |-> result, rng |-> s]
    ELSE LET s2 == RngStep(s)
             p == Randbelow(s2, n) + 1
         IN SampleDraw(s2, [pool EXCEPT ![p] = pool[n]], n - 1, d - 1,
                       Append(result, pool[p]))

RandomSample(s, population, size) ==
    SampleDraw(s, population, Len(population), size, <<>>)

----------------------------------------------------------------------------
(* CoverTuning.get_bootstrap_sample *)

\* Python round(num/den): round half to even.
PyRound(num, den) ==
    LET q == num \div den
        r == 2 * (num % den)
    IN IF r < den THEN q
       ELSE IF r > den THEN q + 1
       ELSE IF q % 2 = 0 THEN q ELSE q + 1

\* round(len(data_idx)*sample_ratio)
SampleSizeTruncated(n, ratio) == (n * ratio) \div 10

SampleSize(n, ratio) == PyRound(n * ratio, 10)

\* self.data.iloc[current_idx,:] on a frame of n rows: positions p in
\* -n..n-1 select row p (n+p when negative); any other position raises.
IlocRaises(n, current_idx) ==
    \E p \in Range(current_idx) : p >= n \/ p < -n

Iloc(n, current_idx) ==
    [q \in DOMAIN current_idx |->
        IF current_idx[q] < 0 THEN n + current_idx[q] ELSE current_idx[q]]

\* The element of a one-element set.
Only(S) == CHOOSE x \in S : TRUE

\* The loop of lines 74-81 from iteration b on.
RECURSIVE BootstrapLoop(_, _, _, _, _)
BootstrapLoop(s, b, ratio, idx, data) ==
    IF b >= n_bootstrap
    THEN [raised |-> FALSE, idx_bootstrap |-> idx, X_arrays |-> data, rng |-> s]
    ELSE LET n == Len(data_idx)
             size == SampleSize(n, ratio)
             Drawn(y) ==
                 IF IlocRaises(n, y.result)
                 THEN [raised |-> TRUE,
                       idx_bootstrap |-> Append(idx, y.result),
                       X_arrays |-> data, rng |-> y.rng]
                 ELSE BootstrapLoop(y.rng, b + 1, ratio,
                                    Append(idx, y.result),
                                    Append(data, Iloc(n, y.result)))
         IN IF size > n
            THEN [raised |-> TRUE, idx_bootstrap |-> idx, X_arrays |-> data,
                  rng |-> s]
            ELSE Only({Drawn(y) : y \in {RandomSample(s, data_idx, size)}})

\* The same call without line 72: the draws continue from the state g the
\* global generator is in.
get_bootstrap_sample_unseeded(g, ratio) ==
    BootstrapLoop(g, 0, ratio, <<>>, <<>>)

\* get_bootstrap_sample(sample_ratio) called with the global generator in
\* state g: line 72 reseeds it.
get_bootstrap_sample(g, ratio) ==
    BootstrapLoop(RandomSeed(seed_value), 0, ratio, <<>>, <<>>)

----------------------------------------------------------------------------
(* Values of the variables a specification leaves alone *)

Unset == <<"unset">>
NoMatrix == [shape |-> <<0, 0>>, data |-> <<>>]
NoTable == <<>>

\* pd.RangeIndex(n), the default index of a frame of n rows
RangeIndex(n) == [p \in 1..n |-> p - 1]

\* Index labels beside the default ones: a negative label, repeated labels,
\* a label past the last row.
Labels == {-1, 0, 1, 7}

DataFrames == {RangeIndex(n) : n \in 0..MaxRows} \cup SeqsUpTo(Labels, MaxRows)

\* sample_ratio values in (0, 1], in tenths
SampleRatios == {1, 5, 7, 10}

----------------------------------------------------------------------------
(* Specification BootstrapSpec: callers of get_bootstrap_sample sharing    *)
(* the global generator with other code                                    *)

BootstrapInit ==
    /\ data_idx \in DataFrames
    /\ n_bootstrap \in 0..MaxBootstrap
    /\ seed_value \in 0..MaxSeed
    /\ sample_ratio \in SampleRatios
    /\ rng = 0
    /\ idx_bootstrap = <<>>
    /\ bootstrap_samples = <<>>
    /\ first_idx = <<>>
    /\ calls = <<>>
    /\ uses = 0
    /\ pc = "idle"
    /\ res_range = <<>> /\ gain_range = <<>>
    /\ netsimile = NoTable /\ matrix = NoMatrix
    /\ i = 0 /\ j = 0 /\ k = 0
    /\ res_current = 0 /\ gain_current = 0
    /\ graph_list = <<>> /\ dist = Unset /\ visited = <<>>
    /\ signature = <<>> /\ stats_df = Unset

\* A call self.get_bootstrap_sample(sample_ratio), lines 68-84.
CallGetBootstrapSample ==
    /\ pc \in {"idle", "returned", "raised"}
    /\ Len(calls) < MaxCalls
    /\ \E r \in {get_bootstrap_sample(rng, sample_ratio)} :
          /\ rng' = r.rng
          /\ idx_bootstrap' = r.idx_bootstrap
          /\ bootstrap_samples' =
                 IF r.raised THEN bootstrap_samples ELSE r.X_arrays
          /\ first_idx' = IF calls = <<>> THEN r.idx_bootstrap ELSE first_idx
          /\ pc' = IF r.raised THEN "raised" ELSE "returned"
    /\ calls' = Append(calls, uses)
    /\ UNCHANGED <<data_idx, res_range, gain_range, n_bootstrap, seed_value,
                   netsimile, sample_ratio, uses, matrix, i, j, k,
                   res_current, gain_current, graph_list, dist, visited,
                   signature, stats_df>>

\* Other code draws from the global generator of module random, or
\* reseeds it.
OtherRandomUse ==
    /\ pc \in {"idle", "returned", "raised"}
    /\ uses < MaxUses
    /\ rng' \in {RngStep(rng)} \cup {RandomSeed(a) : a \in 0..MaxSeed}
    /\ uses' = uses + 1
    /\ UNCHANGED <<data_idx, res_range, gain_range, n_bootstrap, seed_value,
                   netsimile, sample_ratio, idx_bootstrap, bootstrap_samples,
                   first_idx, calls, pc, matrix, i, j, k, res_current,
                   gain_current, graph_list, dist, visited, signature,
                   stats_df>>

BootstrapNext == CallGetBootstrapSample \/ OtherRandomUse

BootstrapSpec == BootstrapInit /\ [][BootstrapNext]_vars

\* C4: for a fixed seed_value, dataset and sample_ratio, every call of
\* get_bootstrap_sample makes the same sequence of index draws as the first
\* call did, whatever calls or other uses of the global generator came
\* before it.
C4_SameDrawsEveryCall ==
    calls # <<>> => idx_bootstrap = first_idx

\* A second call, made after another use of the generator that the first
\* call did not see, with draws to compare.
C4_Witness ==
    /\ Len(calls) = 2
    /\ calls[2] > calls[1]
    /\ pc = "returned"
    /\ n_bootstrap >= 2
    /\ Len(idx_bootstrap) = n_bootstrap
    /\ Len(idx_bootstrap[1]) >= 2

\* C5: a call that returns gives exactly n_bootstrap samples, each of
\* exactly round(sample_ratio * total_rows) rows, and on a dataset with the
\* default index the call always returns.
C5_SampleCountAndSize ==
    /\ pc = "returned" =>
          /\ Len(bootstrap_samples) = n_bootstrap
          /\ \A b \in DOMAIN bootstrap_samples :
                Len(bootstrap_samples[b])
                    = PyRound(Len(data_idx) * sample_ratio, 10)
    /\ pc = "raised" => data_idx # RangeIndex(Len(data_idx))

\* Three rows at ratio 0.5: 1.5 rounds to 2 rows, in each of 2 or more samples.
C5_Witness ==
    /\ pc = "returned"
    /\ data_idx = RangeIndex(3)
    /\ sample_ratio = 5
    /\ n_bootstrap >= 2
    /\ Len(bootstrap_samples) = n_bootstrap
    /\ \A b \in DOMAIN bootstrap_samples : Len(bootstrap_samples[b]) = 2

\* C9: every returned sample holds no dataset row more than once and only
\* rows of the dataset, whatever the index labels are.
C9_NoRowTwice ==
    pc = "returned" =>
        \A b \in DOMAIN bootstrap_samples :
            /\ Range(bootstrap_samples[b]) \subseteq 0..(Len(data_idx) - 1)
            /\ Cardinality(Range(bootstrap_samples[b]))
                   = Len(bootstrap_samples[b])

----------------------------------------------------------------------------
(* CoverTuning.create_tda_graph and NetSimile                              *)

\* create_tda_graph(x, perc_overlap, n_cubes): the Mapper graph of sample x
\* under Cover(perc_overlap, n_cubes).  The projection is seeded, so the
\* graph is a function of the three arguments and is held as that triple.
create_tda_graph(x, perc_overlap, n_cubes) ==
    [x |-> x, perc_overlap |-> perc_overlap, n_cubes |-> n_cubes]

\* The classes of graph signatures NetSimile tells apart.
SigClasses == {0, 1}

\* The signature class of a graph: a fixed function of the graph.
GraphSignature(g) == (SumSeq(g.x) * (g.perc_overlap + g.n_cubes)) % 2

\* Every behaviour of NetSimile.dist on signature classes, and those of a
\* symmetric distance that is 0 on equal signatures (Canberra).
NetSimileTables == [SigClasses \X SigClasses -> 0..MaxDist]

CanberraTables ==
    {t \in NetSimileTables :
        \A a, b \in SigClasses : t[a, b] = t[b, a] /\ t[a, a] = 0}

\* The Canberra tables that give unequal signatures distance 0 or MaxDist.
GridTables == {t \in CanberraTables : t[0, 1] \in {0, MaxDist}}

\* netsimile.dist(g1, g2)
NetSimileDist(g1, g2) == netsimile[GraphSignature(g1), GraphSignature(g2)]

----------------------------------------------------------------------------
(* CoverTuning.graph_distance_metric *)

\* f'd{a}{b}': the digits of a followed by the digits of b.
DistKey(a, b) == a * (IF b < 10 THEN 10 ELSE 100) + b

\* avg_distance(distances), lines 101-103
avg_distance(distances) ==
    IF DOMAIN distances = {} THEN <<"ZeroDivisionError">>
    ELSE Fraction(SumOver(distances, DOMAIN distances),
                  Cardinality(DOMAIN distances))

\* Lines 109-120: the scores recorded for the pair (a, b) of 0-based
\* positions of graphs.
RecordPair(graphs, a, b, distance) ==
    LET dist_key_ij == DistKey(a + 1, b + 1)
        dist_ij_netsimile == NetSimileDist(graphs[a + 1], graphs[b + 1])
        dist_key_ji == DistKey(b + 1, a + 1)
        dist_ji_netsimile == NetSimileDist(graphs[b + 1], graphs[a + 1])
        Put(d, key, v) == [q \in DOMAIN d \cup {key} |->
                              IF q = key THEN v ELSE d[q]]
    IN IF dist_ij_netsimile = dist_ji_netsimile
       THEN Put(distance, dist_key_ij, dist_ij_netsimile)
       ELSE Put(Put(distance, dist_key_ij, dist_ij_netsimile),
                dist_key_ji, dist_ji_netsimile)

\* The loops of lines 105-122 from the pair (a, b) on, with the return of
\* line 122 inside the inner loop; falling off the outer loop returns None.
RECURSIVE PairLoop(_, _, _, _)
PairLoop(graphs, a, b, distance) ==
    IF a >= Len(graphs) THEN None
    ELSE IF b >= Len(graphs) THEN PairLoop(graphs, a + 1, a + 2, distance)
    ELSE avg_distance(RecordPair(graphs, a, b, distance))

\* The loops with the return moved after them: every pair is recorded.
RECURSIVE AllPairsLoop(_, _, _, _)
AllPairsLoop(graphs, a, b, distance) ==
    IF a >= Len(graphs) THEN avg_distance(distance)
    ELSE IF b >= Len(graphs) THEN AllPairsLoop(graphs, a + 1, a + 2, distance)
    ELSE AllPairsLoop(graphs, a, b + 1, RecordPair(graphs, a, b, distance))

graph_distance_metric_all_pairs(graphs) ==
    IF Len(graphs) < 2 THEN None ELSE AllPairsLoop(graphs, 0, 1, <<>>)

\* A guard in front of the loops that scores a short list 0.
graph_distance_metric_zero_default(graphs) ==
    IF Len(graphs) < 2 THEN <<0, 1>> ELSE PairLoop(graphs, 0, 1, <<>>)

graph_distance_metric(graphs) == PairLoop(graphs, 0, 1, <<>>)

----------------------------------------------------------------------------
(* Specification DistanceSpec: graph_distance_metric on a list of graphs   *)

\* Graphs of two signature classes, two of them of the same class.
DistanceGraphs ==
    {create_tda_graph(<<0, 1>>, 5, 2), create_tda_graph(<<0, 2>>, 5, 2),
     create_tda_graph(<<0, 1>>, 10, 3)}

DistanceInit ==
    /\ graph_list \in SeqsUpTo(DistanceGraphs, MaxGraphs)
    /\ netsimile \in NetSimileTables
    /\ dist = Unset
    /\ pc = "idle"
    /\ data_idx = <<>> /\ n_bootstrap = 0 /\ seed_value = 0
    /\ sample_ratio = 7 /\ rng = 0
    /\ idx_bootstrap = <<>> /\ bootstrap_samples = <<>>
    /\ first_idx = <<>> /\ calls = <<>> /\ uses = 0
    /\ res_range = <<>> /\ gain_range = <<>>
    /\ matrix = NoMatrix
    /\ i = 0 /\ j = 0 /\ k = 0
    /\ res_current = 0 /\ gain_current = 0
    /\ visited = <<>>
    /\ signature = <<>> /\ stats_df = Unset

\* A call self.graph_distance_metric(graph_list), lines 96-122.
CallGraphDistanceMetric ==
    /\ pc = "idle"
    /\ dist' = graph_distance_metric(graph_list)
    /\ pc' = "returned"
    /\ UNCHANGED <<data_idx, res_range, gain_range, n_bootstrap, seed_value,
                   rng, netsimile, sample_ratio, idx_bootstrap,
                   bootstrap_samples, first_idx, calls, uses, matrix, i, j, k,
                   res_current, gain_current, graph_list, visited, signature,
                   stats_df>>

DistanceNext == CallGraphDistanceMetric

DistanceSpec == DistanceInit /\ [][DistanceNext]_vars

\* The lists that agree with graphs on positions 0 and 1.
SameFirstPair(graphs) ==
    {g \in SeqsUpTo(DistanceGraphs, MaxGraphs) :
        Len(g) >= 2 /\ g[1] = graphs[1] /\ g[2] = graphs[2]}

\* C2: on a list of 2 or more graphs the result is the average of the
\* scores recorded for the pair of positions 0 and 1 alone (one score when
\* both directions agree, two otherwise), and no graph at position 2 or
\* later has any effect on it.
C2_FirstPairOnly ==
    (pc = "returned" /\ Len(graph_list) >= 2) =>
        LET d12 == NetSimileDist(graph_list[1], graph_list[2])
            d21 == NetSimileDist(graph_list[2], graph_list[1])
        IN /\ dist = IF d12 = d21 THEN Fraction(d12, 1)
                     ELSE Fraction(d12 + d21, 2)
           /\ \A g \in SameFirstPair(graph_list) :
                 graph_distance_metric(g) = dist

\* Three graphs whose later pairs score differently from the first pair,
\* the first pair scoring differently in its two directions.
C2_Witness ==
    /\ pc = "returned"
    /\ Len(graph_list) = 3
    /\ NetSimileDist(graph_list[1], graph_list[2])
           # NetSimileDist(graph_list[2], graph_list[1])
    /\ NetSimileDist(graph_list[1], graph_list[3])
           # NetSimileDist(graph_list[1], graph_list[2])
    /\ dist = Fraction(NetSimileDist(graph_list[1], graph_list[2])
                         + NetSimileDist(graph_list[2], graph_list[1]), 2)

\* C6: when the first two graphs are identical and the metric gives 0 for
\* them in both directions, the result is 0.
C6_IdenticalGraphsScoreZero ==
    (/\ pc = "returned"
     /\ Len(graph_list) >= 2
     /\ graph_list[1] = graph_list[2]
     /\ NetSimileDist(graph_list[1], graph_list[2]) = 0
     /\ NetSimileDist(graph_list[2], graph_list[1]) = 0)
    => dist = <<0, 1>>

\* Two identical graphs followed by a graph at a positive distance.
C6_Witness ==
    /\ pc = "returned"
    /\ Len(graph_list) = 3
    /\ graph_list[1] = graph_list[2]
    /\ NetSimileDist(graph_list[1], graph_list[2]) = 0
    /\ NetSimileDist(graph_list[1], graph_list[3]) > 0
    /\ dist = <<0, 1>>

----------------------------------------------------------------------------
(* CoverTuning.grid_search *)

\* The values the ranges are drawn from.
ResValues == {5, 10}
GainValues == {2, 3}

\* np.zeros(shape): cells are addressed by 0-based <<row, column>>.
NpZeros(shape) ==
    [shape |-> shape,
     data |-> [c \in (0..(shape[1] - 1)) \X (0..(shape[2] - 1)) |-> <<0, 1>>]]

\* The shape of line 132 with its two lengths exchanged.
MatrixShapeTransposed == <<Len(gain_range), Len(res_range)>>

\* (len(self.res_range), len(self.gain_range)), line 132
MatrixShape == <<Len(res_range), Len(gain_range)>>

\* matrix[i,j] = dist fails outside the shape.
SetItemRaises(m, row, col) == <<row, col>> \notin DOMAIN m.data

\* matrix[i,j] = dist: None is stored as nan in a float array.
SetItem(m, row, col, v) ==
    [m EXCEPT !.data[<<row, col>>] = IF v = None THEN NaN ELSE v]

GridInit ==
    /\ data_idx \in {RangeIndex(MaxRows), [p \in 1..MaxRows |-> 7]}
    /\ res_range \in SeqsUpTo(ResValues, MaxRange)
    /\ gain_range \in SeqsUpTo(GainValues, MaxRange)
    /\ n_bootstrap \in 0..MaxBootstrap
    /\ seed_value \in 0..MaxSeed
    /\ netsimile \in GridTables
    /\ sample_ratio = 7
    /\ rng = 0
    /\ idx_bootstrap = <<>> /\ bootstrap_samples = <<>>
    /\ first_idx = <<>> /\ calls = <<>> /\ uses = 0
    /\ pc = "idle"
    /\ matrix = NoMatrix
    /\ i = 0 /\ j = 0 /\ k = 0
    /\ res_current = 0 /\ gain_current = 0
    /\ graph_list = <<>> /\ dist = Unset /\ visited = <<>>
    /\ signature = <<>> /\ stats_df = Unset

\* Lines 132-133: the zero matrix and the bootstrap samples.
GridSearchStart ==
    /\ pc = "idle"
    /\ matrix' = NpZeros(MatrixShape)
    /\ \E r \in {get_bootstrap_sample(rng, sample_ratio)} :
          /\ rng' = r.rng
          /\ idx_bootstrap' = r.idx_bootstrap
          /\ bootstrap_samples' =
                 IF r.raised THEN bootstrap_samples ELSE r.X_arrays
          /\ first_idx' = IF calls = <<>> THEN r.idx_bootstrap ELSE first_idx
          /\ pc' = IF r.raised THEN "raised" ELSE "loop_res"
    /\ calls' = Append(calls, uses)
    /\ i' = 0
    /\ UNCHANGED <<data_idx, res_range, gain_range, n_bootstrap, seed_value,
                   netsimile, sample_ratio, uses, j, k, res_current,
                   gain_current, graph_list, dist, visited, signature,
                   stats_df>>

\* Lines 135-136 and 155: the next resolution, or the return of the matrix.
LoopRes ==
    /\ pc = "loop_res"
    /\ IF i < Len(res_range)
       THEN /\ res_current' = res_range[i + 1]
            /\ j' = 0
            /\ pc' = "loop_gain"
       ELSE /\ pc' = "returned"
            /\ UNCHANGED <<res_current, j>>
    /\ UNCHANGED <<data_idx, res_range, gain_range, n_bootstrap, seed_value,
                   rng, netsimile, sample_ratio, idx_bootstrap,
                   bootstrap_samples, first_idx, calls, uses, matrix, i, k,
                   gain_current, graph_list, dist, visited, signature,
                   stats_df>>

\* LoopGain with line 144 left out: the list of the previous cell is kept.
LoopGainKeepsList ==
    /\ pc = "loop_gain"
    /\ IF j < Len(gain_range)
       THEN /\ gain_current' = gain_range[j + 1]
            /\ k' = 0
            /\ pc' = "build"
            /\ UNCHANGED <<i, graph_list>>
       ELSE /\ i' = i + 1
            /\ pc' = "loop_res"
            /\ UNCHANGED <<gain_current, graph_list, k>>
    /\ UNCHANGED <<data_idx, res_range, gain_range, n_bootstrap, seed_value,
                   rng, netsimile, sample_ratio, idx_bootstrap,
                   bootstrap_samples, first_idx, calls, uses, matrix, j,
                   res_current, dist, visited, signature, stats_df>>

\* Lines 137-144: the next gain with an empty graph list, or the end of
\* the row.
LoopGain ==
    /\ pc = "loop_gain"
    /\ IF j < Len(gain_range)
       THEN /\ gain_current' = gain_range[j + 1]
            /\ graph_list' = <<>>
            /\ k' = 0
            /\ pc' = "build"
            /\ UNCHANGED i
       ELSE /\ i' = i + 1
            /\ pc' = "loop_res"
            /\ UNCHANGED <<gain_current, graph_list, k>>
    /\ UNCHANGED <<data_idx, res_range, gain_range, n_bootstrap, seed_value,
                   rng, netsimile, sample_ratio, idx_bootstrap,
                   bootstrap_samples, first_idx, calls, uses, matrix, j,
                   res_current, dist, visited, signature, stats_df>>

\* Lines 145-147: the graph of bootstrap sample k.
BuildGraph ==
    /\ pc = "build"
    /\ k < Len(bootstrap_samples)
    /\ graph_list' = Append(graph_list,
           create_tda_graph(bootstrap_samples[k + 1], res_current,
                            gain_current))
    /\ k' = k + 1
    /\ UNCHANGED <<data_idx, res_range, gain_range, n_bootstrap, seed_value,
                   rng, netsimile, sample_ratio, idx_bootstrap,
                   bootstrap_samples, first_idx, calls, uses, pc, matrix, i,
                   j, res_current, gain_current, dist, visited, signature,
                   stats_df>>

\* Lines 150-153 after the last graph of the cell: the score of the list
\* is stored at matrix[i,j].
ScoreCell ==
    /\ pc = "build"
    /\ k >= Len(bootstrap_samples)
    /\ dist' = graph_distance_metric(graph_list)
    /\ IF SetItemRaises(matrix, i, j)
       THEN /\ pc' = "raised"
            /\ UNCHANGED <<matrix, visited, j>>
       ELSE /\ matrix' = SetItem(matrix, i, j, dist')
            /\ visited' = Append(visited, <<i, j, Len(graph_list)>>)
            /\ j' = j + 1
            /\ pc' = "loop_gain"
    /\ UNCHANGED <<data_idx, res_range, gain_range, n_bootstrap, seed_value,
                   rng, netsimile, sample_ratio, idx_bootstrap,
                   bootstrap_samples, first_idx, calls, uses, i, k,
                   res_current, gain_current, graph_list, signature,
                   stats_df>>

GridNext == GridSearchStart \/ LoopRes \/ LoopGain \/ BuildGraph \/ ScoreCell

\* grid_search is one sequential call: it keeps running until it returns
\* or raises.
GridSpec == GridInit /\ [][GridNext]_vars /\ WF_vars(GridNext)

\* C1: every graph of the list being built for cell (i, j) has n_cubes equal
\* to res_range[i] and perc_overlap equal to gain_range[j].
C1_ResolutionIsCubeCount ==
    pc = "build" =>
        \A g \in Range(graph_list) :
            /\ g.n_cubes = res_range[i + 1]
            /\ g.perc_overlap = gain_range[j + 1]

\* The graphs grid_search builds for the cell of res and gain.
CellGraphs(res, gain) ==
    [b \in DOMAIN bootstrap_samples |->
        create_tda_graph(bootstrap_samples[b], res, gain)]

\* C3: the matrix grid_search returns has shape (len(res_range),
\* len(gain_range)), empty ranges included, and its cell (i, j) holds the
\* score of the graphs built from res_range[i] and gain_range[j].
C3_MatrixShape ==
    pc = "returned" =>
        /\ matrix.shape = <<Len(res_range), Len(gain_range)>>
        /\ DOMAIN matrix.data
               = (0..(Len(res_range) - 1)) \X (0..(Len(gain_range) - 1))
        /\ \A c \in DOMAIN matrix.data :
              LET score == graph_distance_metric(
                               CellGraphs(res_range[c[1] + 1],
                                          gain_range[c[2] + 1]))
              IN matrix.data[c] = IF score = None THEN NaN ELSE score

\* One resolution and two gains whose cells hold different scores.
C3_Witness ==
    /\ pc = "returned"
    /\ Len(res_range) = 1
    /\ Len(gain_range) = 2
    /\ matrix.shape = <<1, 2>>
    /\ IsNumeric(matrix.data[<<0, 0>>])
    /\ matrix.data[<<0, 0>>] # matrix.data[<<0, 1>>]

\* The cells in the order of the two loops, each with n_bootstrap graphs.
CellsInOrder ==
    [n \in 1..(Len(res_range) * Len(gain_range)) |->
        <<(n - 1) \div Len(gain_range), (n - 1) % Len(gain_range),
          n_bootstrap>>]

\* The number of steps grid_search has left before it returns.
StepsLeft ==
    LET cell == Len(bootstrap_samples) + 2
        row == Len(gain_range) * cell + 2
        rows == (Len(res_range) - i - 1) * row + 1
    IN CASE pc = "idle" ->
              Len(res_range) * (Len(gain_range) * (n_bootstrap + 2) + 2) + 2
         [] pc = "loop_res" -> (Len(res_range) - i) * row + 1
         [] pc = "loop_gain" -> rows + (Len(gain_range) - j) * cell + 1
         [] pc = "build" ->
              rows + (Len(gain_range) - j - 1) * cell + 1
                   + (Len(bootstrap_samples) - k) + 1
         [] OTHER -> 0

\* C7: grid_search terminates: it reaches its return or a raise, until then
\* it always has a next step, and every step lowers the number of steps
\* left.  It raises only where the row selection of get_bootstrap_sample
\* raises, before any cell.  When it returns it has scored every cell
\* exactly once, in loop order, each from a list rebuilt from empty with
\* exactly one graph per bootstrap sample; with 2 resolutions, 2 gains and
\* n_bootstrap = 3 the matrix is 2x2 and its 4 cells are numeric.
C7_EveryCellOnce ==
    /\ <>(pc \in {"returned", "raised"})
    /\ [](pc \in {"returned", "raised"} \/ ENABLED GridNext)
    /\ [](StepsLeft >= 0)
    /\ [][StepsLeft' < StepsLeft]_vars
    /\ [](pc = "raised" =>
             /\ visited = <<>>
             /\ data_idx # RangeIndex(Len(data_idx)))
    /\ [](pc = "build" =>
             /\ Len(graph_list) = k
             /\ \A b \in 1..k : graph_list[b].x = bootstrap_samples[b])
    /\ [](pc = "returned" =>
             /\ visited = CellsInOrder
             /\ Len(bootstrap_samples) = n_bootstrap)
    /\ []((/\ pc = "returned"
           /\ Len(res_range) = 2
           /\ Len(gain_range) = 2
           /\ n_bootstrap = 3) =>
             /\ matrix.shape = <<2, 2>>
             /\ \A c \in (0..1) \X (0..1) : IsNumeric(matrix.data[c]))

\* The regression scenario returned.
C7_Witness ==
    /\ pc = "returned"
    /\ Len(res_range) = 2
    /\ Len(gain_range) = 2
    /\ n_bootstrap = 3
    /\ Len(visited) = 4
    /\ \A c \in (0..1) \X (0..1) : IsNumeric(matrix.data[c])

\* C10: the score of a cell is numeric exactly when its list has 2 or more
\* graphs, and is None otherwise; with n_bootstrap < 2 every cell of the
\* returned matrix is nan.
C10_ShortListScoresNone ==
    /\ (pc = "loop_gain" /\ j > 0) =>
          /\ IsNumeric(dist) <=> Len(graph_list) >= 2
          /\ Len(graph_list) < 2 => dist = None
    /\ (pc = "returned" /\ n_bootstrap < 2) =>
          \A c \in DOMAIN matrix.data : matrix.data[c] = NaN

\* A 2x2 sweep over a single bootstrap sample.
C10_Witness ==
    /\ pc = "returned"
    /\ n_bootstrap = 1
    /\ matrix.shape = <<2, 2>>
    /\ dist = None
    /\ \A c \in (0..1) \X (0..1) : matrix.data[c] = NaN

----------------------------------------------------------------------------
(* GraphProperties.graph_properties_stats *)

\* ndarray.reshape((rows, cols)) of a vector, row-major: the rows of the
\* result.  A vector of another size than rows*cols raises.
ReshapeRaises(vec, rows, cols) == Len(vec) # rows * cols

Reshape(vec, rows, cols) ==
    [r \in 1..rows |-> [c \in 1..cols |-> vec[(r - 1) * cols + c]]]

\* ndarray.T of a 2-D array
Transpose(m) ==
    [c \in 1..Len(m[1]) |-> [r \in 1..Len(m) |-> m[r][c]]]

row_names == <<"mean", "median", "std", "skewness", "kurtosis">>

col_names ==
    <<"node degree", "clustering coefficient",
      "average degree of neighborhood",
      "average clustering coefficient of neighborhood",
      "number of edges in the neighborhood",
      "number of outgoing edges from the neighborhood",
      "number of neighbors of neighbors (not in neighborhood)">>

\* Lines 182-183 with the signature reshaped to (5,7) directly.
StatsValuesNoTranspose(vec) == Reshape(vec, 5, 7)

\* Lines 182-183: reshape((7,5)) then .T
StatsValues(vec) == Transpose(Reshape(vec, 7, 5))

\* pd.DataFrame(values, columns=columns, index=index)
DataFrame(values, columns, index) ==
    [index |-> index, columns |-> columns, values |-> values]

\* Sizes of the vector graph_signature may hand back, 35 among them.
SignatureSizes == {0, 5, 34, 35, 36, 70}

\* Signature vectors whose elements tell their positions apart.
Signatures ==
    {[n \in 1..size |-> (a * n + b) % 37] :
        size \in SignatureSizes, a \in 1..MaxCoef, b \in 0..MaxCoef}

StatsInit ==
    /\ signature \in Signatures
    /\ stats_df = DataFrame(<<>>, <<>>, <<>>)
    /\ pc = "idle"
    /\ data_idx = <<>> /\ n_bootstrap = 0 /\ seed_value = 0
    /\ sample_ratio = 7 /\ rng = 0
    /\ idx_bootstrap = <<>> /\ bootstrap_samples = <<>>
    /\ first_idx = <<>> /\ calls = <<>> /\ uses = 0
    /\ res_range = <<>> /\ gain_range = <<>>
    /\ netsimile = NoTable /\ matrix = NoMatrix
    /\ i = 0 /\ j = 0 /\ k = 0
    /\ res_current = 0 /\ gain_current = 0
    /\ graph_list = <<>> /\ dist = Unset /\ visited = <<>>

\* A call self.graph_properties_stats(), lines 176-192, on a graph whose
\* signature is the vector signature.
CallGraphPropertiesStats ==
    /\ pc = "idle"
    /\ IF ReshapeRaises(signature, 7, 5)
       THEN /\ pc' = "raised"
            /\ UNCHANGED stats_df
       ELSE /\ stats_df' = DataFrame(StatsValues(signature), col_names,
                                     row_names)
            /\ pc' = "returned"
    /\ UNCHANGED <<data_idx, res_range, gain_range, n_bootstrap, seed_value,
                   rng, netsimile, sample_ratio, idx_bootstrap,
                   bootstrap_samples, first_idx, calls, uses, matrix, i, j, k,
                   res_current, gain_current, graph_list, dist, visited,
                   signature>>

StatsNext == CallGraphPropertiesStats

StatsSpec == StatsInit /\ [][StatsNext]_vars

\* C8: the table returned has the 5 rows mean, median, std, skewness,
\* kurtosis and the 7 feature columns, its entry at (statistic s, feature
\* f) is element 5*f + s of the signature, and the call returns a table only
\* for a signature of 35 elements.
C8_StatsTable ==
    /\ pc = "returned" =>
          /\ Len(signature) = 35
          /\ stats_df.index
                 = <<"mean", "median", "std", "skewness", "kurtosis">>
          /\ stats_df.columns
                 = <<"node degree", "clustering coefficient",
                     "average degree of neighborhood",
                     "average clustering coefficient of neighborhood",
                     "number of edges in the neighborhood",
                     "number of outgoing edges from the neighborhood",
                     "number of neighbors of neighbors (not in neighborhood)">>
          /\ DOMAIN stats_df.values = 1..5
          /\ \A s \in 0..4 :
                /\ DOMAIN stats_df.values[s + 1] = 1..7
                /\ \A f \in 0..6 :
                      stats_df.values[s + 1][f + 1] = signature[5 * f + s + 1]
    /\ pc = "raised" => Len(signature) # 35

\* A table returned for a signature whose 35 elements are all different.
C8_Witness ==
    /\ pc = "returned"
    /\ Cardinality(Range(signature)) = 35
    /\ stats_df.values[2][1] = signature[2]
    /\ stats_df.values[1][2] = signature[6]

====
